---- MODULE Spec2Model ----
(***************************************************************************)
(* State-machine model of the voice-journal client                        *)
(* (assets/js/app.js): recording session, timer, processing client,       *)
(* journal store (localStorage), export / delete and view switching; and  *)
(* of the recorder of the single-page variant (assets/js/script.js) with  *)
(* its auto-stop timeout.                                                  *)
(*                                                                         *)
(* One action per event handler or asynchronous continuation.  Time is    *)
(* counted in units of UnitMs milliseconds.                                *)
(***************************************************************************)
EXTENDS Integers, Sequences, FiniteSets, TLC

\* ---------------------------------------------------------------- bounds
MaxStarts == 2      \* startRecording invocations (record-button clicks)
MaxClock == 1       \* clock range of the whole-application specification
MaxTime == 8        \* clock range of the timer specification
MaxScriptTime == 5  \* clock range of the script.js specification
TickMs == 100       \* setInterval(updateTimer, 100)
UnitMs == 5 * TickMs \* milliseconds per clock unit: five timer periods

Ids == 1..MaxStarts
ViewNames == {"landing", "recording", "processing", "insights", "settings"}
Presets == {"preset1", "preset2"}
NoPreset == "none"
Undefined == -1

\* strings whose characters matter are sequences of characters
Typed == << <<>>, <<" ", " ">>, <<" ", "t", "x", "t", " ">> >>
PresetText(p) == <<p>>
GeneralReflection == <<"General reflection">>

VARIABLES
    now,            \* Date.now(), in clock units
    nCalls,         \* startRecording invocations so far; call k owns stream k / recorder k
    gumPending,     \* calls suspended at `await getUserMedia`
    stream,         \* stream k: "none" | "live" | "ended" (all tracks stopped)
    recorder,       \* MediaRecorder k .state: "none" | "inactive" | "recording" | "paused"
    stopEvents,     \* recorders with a queued (undelivered) dataavailable+stop task
    mediaRecorder,  \* let mediaRecorder  (0 = undefined)
    audioChunks,    \* let audioChunks    (each chunk tagged with its recorder)
    audioUrl,       \* let audioUrl       (0 = undefined, n = n-th object URL)
    isRecording, isPaused, isCancelled,
    startTime, pausedTime,
    timerInterval,  \* let timerInterval  (0 = undefined)
    intervals,      \* live setInterval handles
    rafLoops,       \* startWaveform calls whose drawWaveform has a frame requested
    timerText,      \* timerElement.textContent, as whole seconds
    pauseIcon,      \* pauseButton.innerHTML: "pause" | "play"
    activeViews,    \* views carrying the class 'active'
    selected,       \* the starter option carrying the class 'selected'
    customValue,    \* customStarter.value
    journalEntries, \* localStorage['journalEntries']: [present, text]
    inflight,       \* processing requests awaiting their response
    download,       \* the last file handed to the browser for download
    lastAlert,      \* the last alert() message
    calendar,       \* the rendered .calendar-view, for each zone of Zones
    ended,          \* history: how session k was ended: "none" | "stop" | "cancel"
    delivered,      \* history: recorders whose stop event has been delivered
    processedFor,   \* history: recorders whose stop listener called processAudio
    recordedTime,   \* history: clock units spent recording (not paused) in this session
    \* script.js (the single-page recorder; its globals are its own)
    scriptNow,           \* Date.now(), in script clock units
    scriptCalls,         \* startRecording invocations so far; call k owns recorder k
    scriptGumPending,    \* calls suspended at `await getUserMedia`
    scriptRecorder,      \* MediaRecorder k .state: "none" | "recording" | "inactive"
    scriptMediaRecorder, \* let mediaRecorder  (0 = undefined)
    scriptIsRecording,   \* let isRecording
    scriptStartTime,     \* let startTime
    scriptTimerInterval, \* let timerInterval  (0 = undefined)
    scriptIntervals,     \* live setInterval handles
    scriptTimeouts,      \* pending setTimeout callbacks: [id, due]
    scriptButton,        \* recordBtn.textContent
    scriptError,         \* showError has been called
    scriptStartedAt,     \* history: when recorder k was started
    scriptStoppedBy,     \* history: what stopped recorder k: "none" | "click" | "timeout"
    scriptStoppedAt      \* history: when recorder k was stopped

recVars == <<nCalls, gumPending, stream, recorder, stopEvents, mediaRecorder,
             audioChunks, isRecording, isPaused, isCancelled, ended, delivered>>
timeVars == <<startTime, pausedTime, timerInterval, intervals, timerText,
              pauseIcon, recordedTime>>
procVars == <<audioUrl, inflight, processedFor>>
topicVars == <<selected, customValue>>
storeVars == <<journalEntries, download>>
appVars == <<now, recVars, timeVars, rafLoops, procVars, topicVars, storeVars,
             activeViews, lastAlert, calendar>>
scriptVars == <<scriptNow, scriptCalls, scriptGumPending, scriptRecorder,
                scriptMediaRecorder, scriptIsRecording, scriptStartTime,
                scriptTimerInterval, scriptIntervals, scriptTimeouts, scriptButton,
                scriptError, scriptStartedAt, scriptStoppedBy, scriptStoppedAt>>
vars == <<appVars, scriptVars>>

\* ---------------------------------------------------------------- alerts
Alert(kind, detail, n) == [kind |-> kind, detail |-> detail, n |-> n]
NoAlert == Alert("none", "", 0)
MicAlert == Alert("Could not access microphone", "", 0)

\* ---------------------------------------------------------------- views
\* showView without the loop that removes 'active' from every view
ShowViewAdds(viewName) ==
    IF viewName \in ViewNames THEN activeViews \cup {viewName} ELSE activeViews

ShowView(viewName) == IF viewName \in ViewNames THEN {viewName} ELSE {}

\* ---------------------------------------------------------------- timer
\* updateTimer's `elapsed`, in clock units
ElapsedAtIgnoringPause(paused, pTime, sTime, t) == t - sTime

ElapsedAt(paused, pTime, sTime, t) == IF paused THEN pTime - sTime ELSE t - sTime

\* `elapsed` as updateTimer would compute it in the current state
Elapsed == ElapsedAt(isPaused, pausedTime, startTime, now)

\* Math.floor(elapsed / 1000): the MM:SS display as whole seconds
Seconds(units) == (units * UnitMs) \div 1000

\* updateTimer: the new timerElement.textContent
UpdateTimer(rec, paused, pTime, sTime, t, old) ==
    IF ~rec THEN old ELSE Seconds(ElapsedAt(paused, pTime, sTime, t))

\* ------------------------------------------------------- recording session
\* recordButton click: startRecording up to `await getUserMedia`
RecordClick ==
    /\ nCalls < MaxStarts
    /\ nCalls' = nCalls + 1
    /\ gumPending' = gumPending \cup {nCalls + 1}
    /\ UNCHANGED <<scriptVars, calendar, now, rafLoops, stream, recorder, stopEvents, mediaRecorder, audioChunks,
                   isRecording, isPaused, isCancelled, ended, delivered,
                   timeVars, procVars, topicVars, storeVars, activeViews, lastAlert>>

\* the rejection handled after the session flags have been set
GumDeniedSetsRecording(k) ==
    /\ k \in gumPending
    /\ gumPending' = gumPending \ {k}
    /\ lastAlert' = MicAlert
    /\ isRecording' = TRUE
    /\ UNCHANGED <<scriptVars, calendar, now, rafLoops, nCalls, stream, recorder, stopEvents, mediaRecorder,
                   audioChunks, isPaused, isCancelled, ended, delivered,
                   timeVars, procVars, topicVars, storeVars, activeViews>>

\* getUserMedia rejects: catch block only
GumDenied(k) ==
    /\ k \in gumPending
    /\ gumPending' = gumPending \ {k}
    /\ lastAlert' = MicAlert
    /\ UNCHANGED <<scriptVars, calendar, now, rafLoops, nCalls, stream, recorder, stopEvents, mediaRecorder,
                   audioChunks, isRecording, isPaused, isCancelled, ended, delivered,
                   timeVars, procVars, topicVars, storeVars, activeViews>>

\* getUserMedia resolves, `new MediaRecorder(stream)` throws: the catch block
\* runs with the stream acquired (a throwing mediaRecorder.start() is not
\* modelled)
RecorderCtorThrows(k) ==
    /\ k \in gumPending
    /\ gumPending' = gumPending \ {k}
    /\ stream' = [stream EXCEPT ![k] = "live"]
    /\ lastAlert' = MicAlert
    /\ UNCHANGED <<scriptVars, calendar, now, rafLoops, nCalls, recorder, stopEvents, mediaRecorder,
                   audioChunks, isRecording, isPaused, isCancelled, ended, delivered,
                   timeVars, procVars, topicVars, storeVars, activeViews>>

\* getUserMedia resolves and the session is set up; startWaveform either
\* returns (then showView('recording')) or throws (then the catch block)
SessionStarts(k, waveformThrows) ==
    /\ k \in gumPending
    /\ gumPending' = gumPending \ {k}
    /\ stream' = [stream EXCEPT ![k] = "live"]
    /\ recorder' = [recorder EXCEPT ![k] = "recording"]
    /\ mediaRecorder' = k
    /\ audioChunks' = <<>>
    /\ isRecording' = TRUE
    /\ isPaused' = FALSE
    /\ isCancelled' = FALSE
    /\ startTime' = now
    /\ pausedTime' = 0
    /\ timerText' = UpdateTimer(TRUE, FALSE, 0, now, now, 0)
    /\ timerInterval' = k
    /\ intervals' = intervals \cup {k}
    /\ recordedTime' = 0
    /\ IF waveformThrows
         THEN /\ lastAlert' = MicAlert
              /\ UNCHANGED <<activeViews, rafLoops>>
         ELSE /\ rafLoops' = rafLoops \cup {k}
              /\ activeViews' = ShowView("recording")
              /\ UNCHANGED lastAlert
    /\ UNCHANGED <<scriptVars, calendar, now, nCalls, stopEvents, ended, delivered, pauseIcon,
                   procVars, topicVars, storeVars>>

\* togglePause with the resume branch leaving startTime as it was
TogglePauseKeepsStart ==
    /\ isRecording /\ mediaRecorder # 0
    /\ IF isPaused
         THEN /\ recorder' = [recorder EXCEPT ![mediaRecorder] = "recording"]
              /\ isPaused' = FALSE
              /\ pauseIcon' = "pause"
              /\ UNCHANGED <<startTime, pausedTime>>
         ELSE /\ recorder' = [recorder EXCEPT ![mediaRecorder] = "paused"]
              /\ isPaused' = TRUE
              /\ pauseIcon' = "play"
              /\ pausedTime' = now
              /\ UNCHANGED startTime
    /\ UNCHANGED <<scriptVars, calendar, now, rafLoops, nCalls, gumPending, stream, stopEvents, mediaRecorder,
                   audioChunks, isRecording, isCancelled, ended, delivered,
                   timerInterval, intervals, timerText, recordedTime,
                   procVars, topicVars, storeVars, activeViews, lastAlert>>

\* pauseButton click
TogglePause ==
    /\ isRecording /\ mediaRecorder # 0
    /\ IF isPaused
         THEN /\ recorder' = [recorder EXCEPT ![mediaRecorder] = "recording"]
              /\ isPaused' = FALSE
              /\ pauseIcon' = "pause"
              /\ startTime' = now - (pausedTime - startTime)
              /\ UNCHANGED pausedTime
         ELSE /\ recorder' = [recorder EXCEPT ![mediaRecorder] = "paused"]
              /\ isPaused' = TRUE
              /\ pauseIcon' = "play"
              /\ pausedTime' = now
              /\ UNCHANGED startTime
    /\ UNCHANGED <<scriptVars, calendar, now, rafLoops, nCalls, gumPending, stream, stopEvents, mediaRecorder,
                   audioChunks, isRecording, isCancelled, ended, delivered,
                   timerInterval, intervals, timerText, recordedTime,
                   procVars, topicVars, storeVars, activeViews, lastAlert>>

\* stopButton click
StopRecording ==
    /\ isRecording /\ mediaRecorder # 0
    /\ isCancelled' = FALSE
    /\ recorder' = [recorder EXCEPT ![mediaRecorder] = "inactive"]
    /\ stopEvents' = stopEvents \cup {mediaRecorder}
    /\ intervals' = intervals \ {timerInterval}
    /\ isRecording' = FALSE
    /\ ended' = [ended EXCEPT ![mediaRecorder] = "stop"]
    /\ activeViews' = ShowView("processing")
    /\ UNCHANGED <<scriptVars, calendar, now, rafLoops, nCalls, gumPending, stream, mediaRecorder, audioChunks,
                   isPaused, delivered, startTime, pausedTime, timerInterval,
                   timerText, pauseIcon, recordedTime,
                   procVars, topicVars, storeVars, lastAlert>>

\* cancelButton click
CancelRecording ==
    /\ isRecording /\ mediaRecorder # 0
    /\ isCancelled' = TRUE
    /\ recorder' = [recorder EXCEPT ![mediaRecorder] = "inactive"]
    /\ stopEvents' = stopEvents \cup {mediaRecorder}
    /\ intervals' = intervals \ {timerInterval}
    /\ isRecording' = FALSE
    /\ stream' = [stream EXCEPT ![mediaRecorder] = "ended"]
    /\ ended' = [ended EXCEPT ![mediaRecorder] = "cancel"]
    /\ activeViews' = ShowView("landing")
    /\ UNCHANGED <<scriptVars, calendar, now, rafLoops, nCalls, gumPending, mediaRecorder, audioChunks,
                   isPaused, delivered, startTime, pausedTime, timerInterval,
                   timerText, pauseIcon, recordedTime,
                   procVars, topicVars, storeVars, lastAlert>>

\* `if (!isRecording || !mediaRecorder) return;`
NoSession == ~isRecording \/ mediaRecorder = 0

\* togglePause testing only `!mediaRecorder`
PauseClickAnyTime ==
    /\ mediaRecorder # 0
    /\ IF isPaused
         THEN /\ isPaused' = FALSE
              /\ pauseIcon' = "pause"
              /\ startTime' = now - (pausedTime - startTime)
              /\ UNCHANGED pausedTime
         ELSE /\ isPaused' = TRUE
              /\ pauseIcon' = "play"
              /\ pausedTime' = now
              /\ UNCHANGED startTime
    /\ recorder' = IF recorder[mediaRecorder] = "inactive" THEN recorder
                   ELSE [recorder EXCEPT ![mediaRecorder] =
                            IF isPaused THEN "recording" ELSE "paused"]
    /\ UNCHANGED <<scriptVars, calendar, now, rafLoops, nCalls, gumPending, stream, stopEvents, mediaRecorder,
                   audioChunks, isRecording, isCancelled, ended, delivered,
                   timerInterval, intervals, timerText, recordedTime,
                   procVars, topicVars, storeVars, activeViews, lastAlert>>

\* the three button handlers invoked in any state: the early return, or the
\* handler's body
PauseClick == TogglePause \/ (NoSession /\ UNCHANGED vars)
StopClick == StopRecording \/ (NoSession /\ UNCHANGED vars)
CancelClick == CancelRecording \/ (NoSession /\ UNCHANGED vars)

\* ---------------------------------------------------------------- topic
\* String.prototype.trim on a sequence of characters
RECURSIVE TrimLeft(_)
TrimLeft(s) == IF s # <<>> /\ Head(s) = " " THEN TrimLeft(Tail(s)) ELSE s

RECURSIVE TrimRight(_)
TrimRight(s) ==
    IF s # <<>> /\ s[Len(s)] = " " THEN TrimRight(SubSeq(s, 1, Len(s) - 1)) ELSE s

Trim(s) == TrimRight(TrimLeft(s))

\* processAudio: `Determine topic`
ResolveTopic(sel, custom) ==
    IF sel # NoPreset THEN Trim(PresetText(sel))
    ELSE IF Trim(custom) # <<>> THEN Trim(custom)
    ELSE GeneralReflection

\* starter-option click
ClickStarter(p) ==
    /\ selected' = p
    /\ customValue' = <<>>
    /\ UNCHANGED <<scriptVars, calendar, now, rafLoops, recVars, timeVars, procVars, storeVars, activeViews, lastAlert>>

\* the input listener without its deselection of the starter options
InputCustomKeepsPreset(v) ==
    /\ customValue' = v
    /\ UNCHANGED selected
    /\ UNCHANGED <<scriptVars, calendar, now, rafLoops, recVars, timeVars, procVars, storeVars, activeViews, lastAlert>>

\* customStarter input event: the field now holds `v`
InputCustom(v) ==
    /\ customValue' = v
    /\ selected' = IF v # <<>> THEN NoPreset ELSE selected
    /\ UNCHANGED <<scriptVars, calendar, now, rafLoops, recVars, timeVars, procVars, storeVars, activeViews, lastAlert>>

\* ------------------------------------------------ recorder 'stop' event
\* the recorder's queued task: dataavailable listener, then stop listener
\* (processAudio runs synchronously up to `await fetch`)
StopEvent(k) ==
    /\ k \in stopEvents
    /\ stopEvents' = stopEvents \ {k}
    /\ delivered' = delivered \cup {k}
    /\ audioChunks' = Append(audioChunks, k)
    /\ IF ~isCancelled
         THEN /\ audioUrl' = audioUrl + 1
              /\ inflight' = inflight \cup
                    {[url |-> audioUrl + 1,
                      topic |-> ResolveTopic(selected, customValue),
                      blob |-> Append(audioChunks, k)]}
              /\ processedFor' = processedFor \cup {k}
              /\ activeViews' = ShowView("processing")
         ELSE UNCHANGED <<audioUrl, inflight, processedFor, activeViews>>
    /\ stream' = [stream EXCEPT ![k] = "ended"]
    /\ UNCHANGED <<scriptVars, calendar, now, rafLoops, nCalls, gumPending, recorder, mediaRecorder, isRecording,
                   isPaused, isCancelled, ended, timeVars, topicVars, storeVars,
                   lastAlert>>

\* ---------------------------------------------------------------- timer
\* setInterval(updateTimer, 100) callback of a live interval
TimerTick(i) ==
    /\ i \in intervals
    /\ timerText' = UpdateTimer(isRecording, isPaused, pausedTime, startTime,
                                now, timerText)
    /\ UNCHANGED <<scriptVars, calendar, now, rafLoops, recVars, procVars, topicVars, storeVars, activeViews,
                   lastAlert, startTime, pausedTime, timerInterval, intervals,
                   pauseIcon, recordedTime>>

\* the animation frame requested by drawWaveform of startWaveform call k:
\* drawWaveform returns when isRecording is false, and otherwise requests
\* the next frame and redraws the canvas
DrawWaveform(k) ==
    /\ k \in rafLoops
    /\ rafLoops' = IF ~isRecording THEN rafLoops \ {k} ELSE rafLoops
    /\ UNCHANGED <<scriptVars, calendar, now, recVars, timeVars, procVars, topicVars, storeVars,
                   activeViews, lastAlert>>

\* time passes
AdvanceClock(limit) ==
    /\ now < limit
    /\ now' = now + 1
    /\ recordedTime' = IF isRecording /\ ~isPaused THEN recordedTime + 1
                       ELSE recordedTime
    /\ UNCHANGED <<scriptVars, calendar, rafLoops, recVars, procVars, topicVars, storeVars,
                   activeViews, lastAlert, startTime, pausedTime, timerInterval, intervals, timerText,
                   pauseIcon>>

\* ----------------------------------------------------------------- JSON
\* A JavaScript object is a function from its keys to values; its JSON text
\* is the sequence of its <<key, value>> members in insertion order, members
\* whose value is undefined (absent keys) left out.  An array text is the
\* sequence of its elements' texts.
EntryKeys == <<"date", "topic", "transcript", "bullets", "emotion", "nextPrompt",
               "audioBlobUrl">>
ExportKeys == <<"date", "topic", "transcript", "bullets", "emotion", "nextPrompt">>

StringifyObject(o, keys) ==
    LET ks == SelectSeq(keys, LAMBDA k : k \in DOMAIN o)
    IN  [i \in 1..Len(ks) |-> <<ks[i], o[ks[i]]>>]

ParseObject(members) ==
    [k \in {members[i][1] : i \in DOMAIN members} |->
        members[CHOOSE i \in DOMAIN members : members[i][1] = k][2]]

StringifyEntries(entries, keys) ==
    [i \in 1..Len(entries) |-> StringifyObject(entries[i], keys)]

ParseEntries(text) == [i \in 1..Len(text) |-> ParseObject(text[i])]

\* ----------------------------------------------------------------- dates
MsPerMinute == 60 * 1000
MsPerDay == 24 * 60 * MsPerMinute

\* an instant is the number of its UTC day (days since 1970-01-01) and the
\* milliseconds since that day began
Instant(day, ms) == [day |-> day + ms \div MsPerDay, ms |-> ms % MsPerDay]

\* the UTC day on which the page is loaded: 2024-03-01
LoadDay == 19783
\* the browser's time zone is a parameter of the run; values that depend
\* on it are computed for each zone of Zones, given as
\* Date.prototype.getTimezoneOffset() (minutes, UTC minus local time)
Zones == {-330, 0, 300}

\* getFullYear / getMonth + 1 / getDate of the day with number `days`
\* (days since 1970-01-01 in the proleptic Gregorian calendar)
CivilFromDays(days) ==
    LET z == days + 719468
        era == z \div 146097
        doe == z - era * 146097
        yoe == (doe - doe \div 1460 + doe \div 36524 - doe \div 146096) \div 365
        doy == doe - (365 * yoe + yoe \div 4 - yoe \div 100)
        mp == (5 * doy + 2) \div 153
        d == doy - (153 * mp + 2) \div 5 + 1
        m == IF mp < 10 THEN mp + 3 ELSE mp - 9
        y == yoe + era * 400 + (IF m <= 2 THEN 1 ELSE 0)
    IN  [y |-> y, m |-> m, d |-> d]

\* new Date(y, m - 1, d): the number of that day
DaysFromCivil(y, m, d) ==
    LET yy == IF m <= 2 THEN y - 1 ELSE y
        era == yy \div 400
        yoe == yy - era * 400
        doy == (153 * (IF m > 2 THEN m - 3 ELSE m + 9) + 2) \div 5 + d - 1
        doe == yoe * 365 + yoe \div 4 - yoe \div 100 + doy
    IN  era * 146097 + doe - 719468

\* the local calendar day of instant i in zone z
LocalDay(i, z) == Instant(i.day, i.ms - z * MsPerMinute).day

\* Date.now() at clock value t; the page is loaded (clock value 0) half a
\* clock unit before LoadDay begins, so that the clock's steps cross the end
\* of a day and of a month, in a leap year
DateNow(t) == Instant(LoadDay, t * UnitMs - UnitMs \div 2)

\* new Date().toISOString() at clock value t: the UTC date and time of day,
\* to the millisecond
ToISOString(t) == DateNow(t)

\* JSON.parse(localStorage.getItem('journalEntries') || '[]')
ReadEntries(ls) == ParseEntries(IF ls.present THEN ls.text ELSE <<>>)

\* the new entry put in front of the stored ones
SaveJournalEntryUnshift(ls, entry) ==
    [present |-> TRUE,
     text |-> StringifyEntries(<<entry>> \o ReadEntries(ls), EntryKeys)]

\* saveJournalEntry: the new value of localStorage['journalEntries']
SaveJournalEntry(ls, entry) ==
    [present |-> TRUE,
     text |-> StringifyEntries(Append(ReadEntries(ls), entry), EntryKeys)]

\* the key built from the getUTC* getters in place of the local ones
DateKeyUTC(iso, z) == CivilFromDays(iso.day)

\* new Date(iso) and `${getFullYear()}-${getMonth() + 1}-${getDate()}`
\* (zero-padded) in zone z: the key as its year, month and day
DateKey(iso, z) == CivilFromDays(LocalDay(iso, z))

\* getJournalDays in zone z (the date key of each stored entry, in store
\* order)
GetJournalDays(ls, z) ==
    LET entries == ReadEntries(ls)
    IN  [i \in 1..Len(entries) |-> DateKey(entries[i]["date"], z)]

\* new Date(year, month + 1, 0).getDate(): the last day of month m of year y
LastDayOfMonth(y, m) ==
    (IF m = 12 THEN DaysFromCivil(y + 1, 1, 1) ELSE DaysFromCivil(y, m + 1, 1))
        - DaysFromCivil(y, m, 1)

\* new Date(year, month, 1).getDay(): 0 is Sunday; day number 0 was a Thursday
FirstDayOfMonth(y, m) == (DaysFromCivil(y, m, 1) + 4) % 7

\* the calendar with a day highlighted when its number is that of a journal
\* day, whatever the month
InitCalendarAnyMonth(ls, t, z) ==
    LET today == CivilFromDays(LocalDay(DateNow(t), z))
        journalDays == GetJournalDays(ls, z)
    IN  [year |-> today.y, month |-> today.m,
         blanks |-> FirstDayOfMonth(today.y, today.m),
         lastDay |-> LastDayOfMonth(today.y, today.m),
         days |-> {i \in 1..LastDayOfMonth(today.y, today.m) :
                     \E j \in DOMAIN journalDays : journalDays[j].d = i}]

\* initCalendar at clock value t in zone z: the month of today, the empty
\* cells before its first day, the number of day cells, and the days whose
\* cell carries the class 'journal-day'
InitCalendar(ls, t, z) ==
    LET today == CivilFromDays(LocalDay(DateNow(t), z))
        journalDays == GetJournalDays(ls, z)
    IN  [year |-> today.y, month |-> today.m,
         blanks |-> FirstDayOfMonth(today.y, today.m),
         lastDay |-> LastDayOfMonth(today.y, today.m),
         days |-> {i \in 1..LastDayOfMonth(today.y, today.m) :
                     \E j \in DOMAIN journalDays :
                        journalDays[j] = [y |-> today.y, m |-> today.m, d |-> i]}]

\* --------------------------------------------------- processing responses
ValidData ==
    [transcript |-> "T",
     bullets |-> <<[text |-> "b", type |-> "neutral"]>>,
     emotion |-> [energy |-> 0, valence |-> 0, summary |-> "s"],
     nextPrompt |-> "P"]
Without(k) == [x \in (DOMAIN ValidData) \ {k} |-> ValidData[x]]
StringFields == {"transcript", "nextPrompt"}

NetworkError == [net |-> TRUE, ok |-> FALSE, status |-> 0, parses |-> FALSE,
                 body |-> [none |-> ""]]
Http(ok, status, parses, body) ==
    [net |-> FALSE, ok |-> ok, status |-> status, parses |-> parses, body |-> body]

\* the responses the processing service (or the network) may give
Responses ==
    << NetworkError,
       Http(FALSE, 500, TRUE, [error |-> "E"]),
       Http(FALSE, 500, TRUE, [detail |-> "d"]),
       Http(FALSE, 502, FALSE, [none |-> ""]),
       Http(TRUE, 200, FALSE, [none |-> ""]),
       Http(TRUE, 200, TRUE, ValidData),
       Http(TRUE, 201, TRUE, [ValidData EXCEPT !["transcript"] = "U"]),
       Http(TRUE, 200, TRUE, Without("transcript")),
       Http(TRUE, 200, TRUE, Without("bullets")),
       Http(TRUE, 200, TRUE, Without("emotion")),
       Http(TRUE, 200, TRUE, Without("nextPrompt")),
       Http(TRUE, 200, TRUE, [ValidData EXCEPT !["transcript"] = ""]) >>

\* `!data.k` for the fields displayInsights requires
Falsy(data, k) == k \notin DOMAIN data \/ (k \in StringFields /\ data[k] = "")

\* the validation with the emotion test left out
InvalidDataNoEmotion(data) ==
    \/ Falsy(data, "transcript")
    \/ Falsy(data, "bullets")
    \/ Falsy(data, "nextPrompt")

\* displayInsights: the validation that throws 'Invalid data format ...'
InvalidData(data) ==
    \/ Falsy(data, "transcript")
    \/ Falsy(data, "bullets")
    \/ Falsy(data, "emotion")
    \/ Falsy(data, "nextPrompt")

ProcessAlert(detail, n) ==
    Alert("Sorry, there was an error processing your audio", detail, n)
DisplayAlert ==
    Alert("There was an error processing the response",
          "Invalid data format received from server.", 0)

\* processAudio: the error.message of what the try block throws on `r`
\* ("" when nothing is thrown there)
ThrownMessage(r) ==
    IF r.net THEN [detail |-> "Failed to fetch", n |-> 0]
    ELSE IF ~r.parses THEN [detail |-> "SyntaxError: not valid JSON", n |-> 0]
    ELSE IF ~r.ok
      THEN IF "error" \in DOMAIN r.body /\ r.body["error"] # ""
             THEN [detail |-> r.body["error"], n |-> 0]
             ELSE [detail |-> "HTTP error! status: ", n |-> r.status]
    ELSE [detail |-> "", n |-> 0]

\* the entry displayInsights saves (a member read from an absent key of
\* `data` is undefined, i.e. an absent key of the entry)
NewEntry(data, topic, t, url) ==
    LET own == [date |-> ToISOString(t), topic |-> topic, audioBlobUrl |-> url]
    IN  [k \in DOMAIN own \cup (DOMAIN data \cap DOMAIN ValidData) |->
            IF k \in DOMAIN own THEN own[k] ELSE data[k]]

\* the error paths without their showView('landing')
FetchResolveNoLanding(q, r) ==
    /\ q \in inflight
    /\ inflight' = inflight \ {q}
    /\ IF r.net \/ ~r.parses \/ ~r.ok
         THEN /\ lastAlert' = ProcessAlert(ThrownMessage(r).detail, ThrownMessage(r).n)
              /\ UNCHANGED activeViews
              /\ UNCHANGED <<journalEntries, calendar>>
         ELSE IF InvalidData(r.body)
           THEN /\ lastAlert' = DisplayAlert
                /\ UNCHANGED activeViews
                /\ UNCHANGED <<journalEntries, calendar>>
           ELSE /\ journalEntries' =
                     SaveJournalEntry(journalEntries,
                                      NewEntry(r.body, q.topic, now, audioUrl))
                /\ calendar' = [z \in Zones |-> InitCalendar(journalEntries', now, z)]
                /\ activeViews' = ShowView("insights")
                /\ UNCHANGED lastAlert
    /\ UNCHANGED <<scriptVars, now, rafLoops, recVars, timeVars, topicVars, audioUrl,
                   processedFor, download>>

\* processAudio after `await fetch` (and `await response.json()`): the
\* response r to request q has arrived; displayInsights on success
FetchResolve(q, r) ==
    /\ q \in inflight
    /\ inflight' = inflight \ {q}
    /\ IF r.net \/ ~r.parses \/ ~r.ok
         THEN /\ lastAlert' = ProcessAlert(ThrownMessage(r).detail, ThrownMessage(r).n)
              /\ activeViews' = ShowView("landing")
              /\ UNCHANGED <<journalEntries, calendar>>
         ELSE IF InvalidData(r.body)
           THEN /\ lastAlert' = DisplayAlert
                /\ activeViews' = ShowView("landing")
                /\ UNCHANGED <<journalEntries, calendar>>
           ELSE /\ journalEntries' =
                     SaveJournalEntry(journalEntries,
                                      NewEntry(r.body, q.topic, now, audioUrl))
                /\ calendar' = [z \in Zones |-> InitCalendar(journalEntries', now, z)]
                /\ activeViews' = ShowView("insights")
                /\ UNCHANGED lastAlert
    /\ UNCHANGED <<scriptVars, now, rafLoops, recVars, timeVars, topicVars, audioUrl,
                   processedFor, download>>

\* ------------------------------------------------------ export and delete
\* the envelope with the stored entries copied whole
ExportDataWholeEntries(entries, t) ==
    [exportDate |-> ToISOString(t),
     totalEntries |-> Len(entries),
     appVersion |-> "1.0.0",
     entries |-> entries]

\* exportAllData: the envelope, as the object it is built as
ExportData(entries, t) ==
    [exportDate |-> ToISOString(t),
     totalEntries |-> Len(entries),
     appVersion |-> "1.0.0",
     entries |-> [i \in 1..Len(entries) |->
                    [k \in {ExportKeys[j] : j \in DOMAIN ExportKeys}
                          \cap DOMAIN entries[i] |-> entries[i][k]]]]

\* JSON.stringify(exportData, null, 2)
StringifyExport(e) ==
    << <<"exportDate", e.exportDate>>, <<"totalEntries", e.totalEntries>>,
       <<"appVersion", e.appVersion>>,
       <<"entries", StringifyEntries(e.entries, EntryKeys)>> >>

ExportAllData ==
    LET entries == ReadEntries(journalEntries)
    IN  /\ IF Len(entries) = 0
             THEN /\ lastAlert' = Alert("No journal entries to export.", "", 0)
                  /\ UNCHANGED download
             ELSE /\ download' = [made |-> TRUE,
                                  text |-> StringifyExport(ExportData(entries, now))]
                  /\ lastAlert' = Alert("Successfully exported", "", Len(entries))
        /\ UNCHANGED <<scriptVars, calendar, now, rafLoops, recVars, timeVars, procVars, topicVars, journalEntries,
                       activeViews>>

\* deleteAllData deleting after the first confirmation alone
DeleteAllDataOneConfirm(c1, c2) ==
    LET entries == ReadEntries(journalEntries)
    IN  /\ IF Len(entries) = 0
             THEN /\ lastAlert' = Alert("No data to delete.", "", 0)
                  /\ UNCHANGED <<journalEntries, activeViews, calendar>>
             ELSE IF c1
               THEN /\ journalEntries' = [present |-> FALSE, text |-> <<>>]
                    /\ calendar' = [z \in Zones |-> InitCalendar(journalEntries', now, z)]
                    /\ lastAlert' = Alert("All journal data has been deleted", "", 0)
                    /\ activeViews' = ShowView("landing")
               ELSE UNCHANGED <<journalEntries, activeViews, lastAlert, calendar>>
        /\ UNCHANGED <<scriptVars, now, rafLoops, recVars, timeVars, procVars, topicVars,
                       download>>

\* deleteAllData; c1, c2 are the answers to the two confirm() dialogs
DeleteAllData(c1, c2) ==
    LET entries == ReadEntries(journalEntries)
    IN  /\ IF Len(entries) = 0
             THEN /\ lastAlert' = Alert("No data to delete.", "", 0)
                  /\ UNCHANGED <<journalEntries, activeViews, calendar>>
             ELSE IF c1 /\ c2
               THEN /\ journalEntries' = [present |-> FALSE, text |-> <<>>]
                    /\ calendar' = [z \in Zones |-> InitCalendar(journalEntries', now, z)]
                    /\ lastAlert' = Alert("All journal data has been deleted", "", 0)
                    /\ activeViews' = ShowView("landing")
               ELSE UNCHANGED <<journalEntries, activeViews, lastAlert, calendar>>
        /\ UNCHANGED <<scriptVars, now, rafLoops, recVars, timeVars, procVars, topicVars,
                       download>>

\* ------------------------------------------------------------ navigation
\* newReflectionButton / closeSettingsButton / settingsButton clicks
Navigate(viewName) ==
    /\ activeViews' = ShowView(viewName)
    /\ UNCHANGED <<scriptVars, calendar, now, rafLoops, recVars, timeVars, procVars, topicVars, storeVars, lastAlert>>

\* ---------------------------------------------------------------- script.js
\* the delay of the auto-stop setTimeout, and the script clock's unit
AutoStopMs == 90000
ScriptUnitMs == AutoStopMs \div 3
AutoStopUnits == AutoStopMs \div ScriptUnitMs

\* script.js stopRecording, called by `by` ("click" or "timeout")
ScriptStopRecording(by) ==
    IF scriptMediaRecorder # 0 /\ scriptIsRecording
      THEN /\ scriptRecorder' = [scriptRecorder EXCEPT ![scriptMediaRecorder] = "inactive"]
           /\ scriptIsRecording' = FALSE
           /\ scriptButton' = "Start Recording"
           /\ scriptIntervals' = scriptIntervals \ {scriptTimerInterval}
           /\ scriptStoppedBy' = [scriptStoppedBy EXCEPT ![scriptMediaRecorder] = by]
           /\ scriptStoppedAt' = [scriptStoppedAt EXCEPT ![scriptMediaRecorder] = scriptNow]
      ELSE UNCHANGED <<scriptRecorder, scriptIsRecording, scriptButton, scriptIntervals,
                       scriptStoppedBy, scriptStoppedAt>>

\* recordBtn click: toggleRecording (startRecording up to `await getUserMedia`,
\* or stopRecording)
ScriptToggleRecording ==
    /\ IF ~scriptIsRecording
         THEN /\ scriptCalls < MaxStarts
              /\ scriptCalls' = scriptCalls + 1
              /\ scriptGumPending' = scriptGumPending \cup {scriptCalls + 1}
              /\ UNCHANGED <<scriptRecorder, scriptIsRecording, scriptButton,
                             scriptIntervals, scriptStoppedBy, scriptStoppedAt>>
         ELSE /\ ScriptStopRecording("click")
              /\ UNCHANGED <<scriptCalls, scriptGumPending>>
    /\ UNCHANGED <<appVars, scriptNow, scriptMediaRecorder, scriptStartTime,
                   scriptTimerInterval, scriptTimeouts, scriptError, scriptStartedAt>>

\* script.js startRecording after `await getUserMedia` resolved
ScriptSessionStarts(k) ==
    /\ k \in scriptGumPending
    /\ scriptGumPending' = scriptGumPending \ {k}
    /\ scriptMediaRecorder' = k
    /\ scriptRecorder' = [scriptRecorder EXCEPT ![k] = "recording"]
    /\ scriptIsRecording' = TRUE
    /\ scriptButton' = "Stop Recording"
    /\ scriptStartTime' = scriptNow
    /\ scriptTimerInterval' = k
    /\ scriptIntervals' = scriptIntervals \cup {k}
    /\ scriptTimeouts' = scriptTimeouts \cup {[id |-> k, due |-> scriptNow + AutoStopUnits]}
    /\ scriptStartedAt' = [scriptStartedAt EXCEPT ![k] = scriptNow]
    /\ UNCHANGED <<appVars, scriptNow, scriptCalls, scriptError, scriptStoppedBy,
                   scriptStoppedAt>>

\* script.js startRecording when getUserMedia rejects: showError
ScriptGumDenied(k) ==
    /\ k \in scriptGumPending
    /\ scriptGumPending' = scriptGumPending \ {k}
    /\ scriptError' = TRUE
    /\ UNCHANGED <<appVars, scriptNow, scriptCalls, scriptRecorder, scriptMediaRecorder,
                   scriptIsRecording, scriptStartTime, scriptTimerInterval,
                   scriptIntervals, scriptTimeouts, scriptButton, scriptStartedAt,
                   scriptStoppedBy, scriptStoppedAt>>

\* the auto-stop callback: `if (isRecording) stopRecording();`
ScriptAutoStop(t) ==
    /\ t \in scriptTimeouts
    /\ t.due <= scriptNow
    /\ scriptTimeouts' = scriptTimeouts \ {t}
    /\ ScriptStopRecording("timeout")
    /\ UNCHANGED <<appVars, scriptNow, scriptCalls, scriptGumPending, scriptMediaRecorder,
                   scriptStartTime, scriptTimerInterval, scriptError, scriptStartedAt>>

\* time passes; a timeout that is due runs before more time passes
ScriptAdvanceClock ==
    /\ scriptNow < MaxScriptTime
    /\ \A t \in scriptTimeouts : t.due > scriptNow
    /\ scriptNow' = scriptNow + 1
    /\ UNCHANGED <<appVars, scriptCalls, scriptGumPending, scriptRecorder,
                   scriptMediaRecorder, scriptIsRecording, scriptStartTime,
                   scriptTimerInterval, scriptIntervals, scriptTimeouts, scriptButton,
                   scriptError, scriptStartedAt, scriptStoppedBy, scriptStoppedAt>>

\* ------------------------------------------------------------ initial state
\* the page after DOMContentLoaded (app.js) or after the script ran (script.js)
Init ==
    /\ now = 0
    /\ nCalls = 0
    /\ gumPending = {}
    /\ stream = [k \in Ids |-> "none"]
    /\ recorder = [k \in Ids |-> "none"]
    /\ stopEvents = {}
    /\ mediaRecorder = 0
    /\ audioChunks = <<>>
    /\ audioUrl = 0
    /\ isRecording = FALSE
    /\ isPaused = FALSE
    /\ isCancelled = FALSE
    /\ startTime = Undefined
    /\ pausedTime = 0
    /\ timerInterval = 0
    /\ intervals = {}
    /\ rafLoops = {}
    /\ calendar = [z \in Zones |-> InitCalendar([present |-> FALSE, text |-> <<>>], 0, z)]
    /\ scriptNow = 0
    /\ scriptCalls = 0
    /\ scriptGumPending = {}
    /\ scriptRecorder = [k \in Ids |-> "none"]
    /\ scriptMediaRecorder = 0
    /\ scriptIsRecording = FALSE
    /\ scriptStartTime = Undefined
    /\ scriptTimerInterval = 0
    /\ scriptIntervals = {}
    /\ scriptTimeouts = {}
    /\ scriptButton = "Start Recording"
    /\ scriptError = FALSE
    /\ scriptStartedAt = [k \in Ids |-> Undefined]
    /\ scriptStoppedBy = [k \in Ids |-> "none"]
    /\ scriptStoppedAt = [k \in Ids |-> Undefined]
    /\ timerText = 0
    /\ pauseIcon = "pause"
    /\ activeViews = {"landing"}
    /\ selected = NoPreset
    /\ customValue = <<>>
    /\ journalEntries = [present |-> FALSE, text |-> <<>>]
    /\ inflight = {}
    /\ download = [made |-> FALSE, text |-> <<>>]
    /\ lastAlert = NoAlert
    /\ ended = [k \in Ids |-> "none"]
    /\ delivered = {}
    /\ processedFor = {}
    /\ recordedTime = 0

\* ---------------------------------------------------------- specifications
RecorderNext ==
    \/ RecordClick
    \/ \E k \in Ids : GumDenied(k)
    \/ \E k \in Ids : RecorderCtorThrows(k)
    \/ \E k \in Ids, w \in BOOLEAN : SessionStarts(k, w)
    \/ TogglePause
    \/ StopRecording
    \/ CancelRecording
    \/ \E k \in Ids : StopEvent(k)

Next ==
    \/ RecorderNext
    \/ \E i \in Ids : TimerTick(i)
    \/ \E k \in Ids : DrawWaveform(k)
    \/ AdvanceClock(MaxClock)
    \/ \E p \in Presets : ClickStarter(p)
    \/ \E j \in DOMAIN Typed : InputCustom(Typed[j])
    \/ \E q \in inflight, j \in DOMAIN Responses : FetchResolve(q, Responses[j])
    \/ ExportAllData
    \/ \E c1, c2 \in BOOLEAN : DeleteAllData(c1, c2)
    \/ Navigate("landing")
    \/ Navigate("settings")

Spec == Init /\ [][Next]_vars

\* The component specifications below run a subsystem on its own.  Every
\* action left out of one leaves unchanged the variables its claims read
\* (see the UNCHANGED clauses), so the subsystem's steps are the only ones
\* that matter to them.

\* recording session and processing requests
RecNext ==
    \/ RecorderNext
    \/ \E q \in inflight, j \in DOMAIN Responses : FetchResolve(q, Responses[j])

SpecRecorder == Init /\ [][RecNext]_vars

\* stop, cancel and processing, with the event loop's guarantees: a queued
\* stop task is run and a request in flight gets its response (or its
\* network error)
ProcessingNext ==
    \/ RecordClick
    \/ \E k \in Ids : SessionStarts(k, FALSE)
    \/ StopRecording
    \/ CancelRecording
    \/ \E k \in Ids : StopEvent(k)
    \/ \E q \in inflight, j \in DOMAIN Responses : FetchResolve(q, Responses[j])

SpecProcessingFair ==
    /\ Init /\ [][ProcessingNext]_vars
    /\ WF_vars(\E k \in Ids : StopEvent(k))
    /\ WF_vars(\E q \in inflight, j \in DOMAIN Responses : FetchResolve(q, Responses[j]))

\* recording session and timer, with a clock long enough for pause cycles
TimerNext ==
    \/ RecordClick
    \/ \E k \in Ids : SessionStarts(k, FALSE)
    \/ TogglePause
    \/ StopRecording
    \/ CancelRecording
    \/ \E i \in Ids : TimerTick(i)
    \/ AdvanceClock(MaxTime)

SpecTimer == Init /\ [][TimerNext]_vars

\* recording session with its repeating callbacks
RepeatingNext ==
    \/ RecordClick
    \/ \E k \in Ids, w \in BOOLEAN : SessionStarts(k, w)
    \/ TogglePause
    \/ StopRecording
    \/ CancelRecording
    \/ \E i \in Ids : TimerTick(i)
    \/ \E k \in Ids : DrawWaveform(k)
    \/ AdvanceClock(MaxClock)

SpecRepeating == Init /\ [][RepeatingNext]_vars

\* the ways a start can end, and the ways out of the session
StartNext ==
    \/ RecordClick
    \/ \E k \in Ids : GumDenied(k)
    \/ \E k \in Ids : RecorderCtorThrows(k)
    \/ \E k \in Ids, w \in BOOLEAN : SessionStarts(k, w)
    \/ StopRecording
    \/ CancelRecording

SpecStart == Init /\ [][StartNext]_vars

\* the session's buttons pressed in any state
ClicksNext ==
    \/ RecordClick
    \/ \E k \in Ids : SessionStarts(k, FALSE)
    \/ PauseClick
    \/ StopClick
    \/ CancelClick
    \/ \E k \in Ids : StopEvent(k)
    \/ AdvanceClock(MaxClock)

SpecClicks == Init /\ [][ClicksNext]_vars

\* script.js: the recorder of the single-page variant
ScriptNext ==
    \/ ScriptToggleRecording
    \/ \E k \in Ids : ScriptSessionStarts(k)
    \/ \E k \in Ids : ScriptGumDenied(k)
    \/ \E t \in scriptTimeouts : ScriptAutoStop(t)
    \/ ScriptAdvanceClock

SpecScript == Init /\ [][ScriptNext]_vars

\* topic choice and the request that carries it
TopicNext ==
    \/ \E p \in Presets : ClickStarter(p)
    \/ \E j \in DOMAIN Typed : InputCustom(Typed[j])
    \/ RecordClick
    \/ \E k \in Ids : SessionStarts(k, FALSE)
    \/ StopRecording
    \/ \E k \in Ids : StopEvent(k)

SpecTopic == Init /\ [][TopicNext]_vars

\* journal store and calendar, with the clock crossing midnight; one
\* failing and one valid response are enough for the store to grow or not
CalendarResponses == {NetworkError, Http(TRUE, 200, TRUE, ValidData)}
CalendarNext ==
    \/ RecordClick
    \/ \E k \in Ids : SessionStarts(k, FALSE)
    \/ StopRecording
    \/ \E k \in Ids : StopEvent(k)
    \/ \E q \in inflight, r \in CalendarResponses : FetchResolve(q, r)
    \/ \E c1, c2 \in BOOLEAN : DeleteAllData(c1, c2)
    \/ AdvanceClock(MaxClock)

SpecCalendar == Init /\ [][CalendarNext]_vars

\* every caller of showView
ViewResponses == CalendarResponses \cup {Http(TRUE, 200, TRUE, Without("emotion"))}
ViewsNext ==
    \/ RecordClick
    \/ \E k \in Ids : SessionStarts(k, FALSE)
    \/ StopRecording
    \/ CancelRecording
    \/ \E k \in Ids : StopEvent(k)
    \/ \E q \in inflight, r \in ViewResponses : FetchResolve(q, r)
    \/ \E c1, c2 \in BOOLEAN : DeleteAllData(c1, c2)
    \/ Navigate("landing")
    \/ Navigate("settings")

SpecViews == Init /\ [][ViewsNext]_vars

\* processing client and journal store
JournalNext ==
    \/ RecordClick
    \/ \E k \in Ids : SessionStarts(k, FALSE)
    \/ StopRecording
    \/ \E k \in Ids : StopEvent(k)
    \/ \E q \in inflight, j \in DOMAIN Responses : FetchResolve(q, Responses[j])
    \/ ExportAllData
    \/ \E c1, c2 \in BOOLEAN : DeleteAllData(c1, c2)

SpecJournal == Init /\ [][JournalNext]_vars

\* ================================================================ claims
Live == {k \in Ids : recorder[k] \in {"recording", "paused"}}
OpenStreams == {k \in Ids : stream[k] = "live"}
StopsAccepted == {k \in Ids : ended[k] = "stop"}
RequiredFields == {"transcript", "bullets", "emotion", "nextPrompt"}

\* C1: a session ended by cancelRecording never causes a call of processAudio
\* (SpecRecorder)
C1_CancelledNeverProcessed ==
    \A k \in Ids : ended[k] = "cancel" => k \notin processedFor

\* C2: at most one started MediaRecorder and at most one open microphone
\* stream exist at any time (SpecRecorder)
C2_AtMostOneLiveSession ==
    /\ Cardinality(Live) <= 1
    /\ Cardinality(OpenStreams) <= 1

\* C3: when no session is active and nothing is pending (no getUserMedia
\* request, no undelivered stop event), no acquired stream has live tracks
\* (SpecRecorder)
C3_StreamsReleased ==
    (~isRecording /\ gumPending = {} /\ stopEvents = {}) => OpenStreams = {}

\* C4: while a session is active, the elapsed time updateTimer computes is
\* the time spent recording since the start, paused intervals excluded; so
\* while paused it is the value at the pause instant (SpecTimer)
C4_ElapsedExcludesPauses ==
    isRecording => Elapsed = recordedTime

\* C4 witness: start, 2500 ms, pause, 1000 ms, resume, 500 ms: 3000 ms elapsed
C4_Scenario ==
    /\ isRecording /\ ~isPaused /\ mediaRecorder = 1
    /\ now * UnitMs = 4000
    /\ pausedTime * UnitMs = 2500
    /\ startTime * UnitMs = 1000
    /\ recordedTime * UnitMs = 3000
    /\ Elapsed * UnitMs = 3000

\* C5: within one session the displayed time never decreases from one step
\* (timer tick) to the next, and while the session stays paused neither the
\* elapsed time updateTimer computes nor its display changes with the clock
\* (SpecTimer)
C5_TimerMonotone ==
    [][mediaRecorder' = mediaRecorder =>
         /\ timerText' >= timerText
         /\ (isRecording /\ isRecording' /\ isPaused /\ isPaused') =>
               /\ Elapsed' = Elapsed
               /\ timerText' \in {timerText, Seconds(Elapsed)}]_vars

\* C5 witness: a paused session, the clock two units past the pause, the
\* display showing the second reached at the pause instant
C5_PausedTicked ==
    /\ isRecording /\ isPaused
    /\ now >= pausedTime + 2
    /\ pausedTime - startTime >= 3
    /\ timerText = Seconds(pausedTime - startTime)
    /\ timerText >= 1

\* a processing attempt that fails: network error, non-2xx status, a body
\* that is no JSON, or a 2xx payload missing a required field
FailedAttempt(r) ==
    \/ r.net
    \/ ~r.ok
    \/ ~r.parses
    \/ \E k \in RequiredFields : k \notin DOMAIN r.body

ErrorAlertKinds == {ProcessAlert("", 0).kind, DisplayAlert.kind}

\* C6: a failed processing attempt ends with the landing view active, an
\* error message shown and the journal store as it was (SpecJournal)
C6_FailureKeepsStore ==
    [][\A q \in inflight, j \in DOMAIN Responses :
          (FetchResolve(q, Responses[j]) /\ FailedAttempt(Responses[j])) =>
             /\ activeViews' = {"landing"}
             /\ lastAlert'.kind \in ErrorAlertKinds
             /\ journalEntries' = journalEntries]_vars

\* C6 witness: after a payload without a required field, the landing view is
\* shown with the display error and the one stored entry is still the store
C6_FailedAfterSave ==
    /\ lastAlert = DisplayAlert
    /\ activeViews = {"landing"}
    /\ inflight = {}
    /\ audioUrl = 2
    /\ Len(ReadEntries(journalEntries)) = 1

\* C7: the processing requests sent are exactly the accepted stopRecording
\* calls whose stop event has been delivered (SpecRecorder)
C7_OneRequestPerStop ==
    /\ Cardinality(processedFor) = Cardinality(StopsAccepted \cap delivered)
    /\ Cardinality(processedFor) <= Cardinality(StopsAccepted)

\* C8: on a non-success status the message shown is the body's error string
\* when the body parses and carries one, and 'HTTP error! status: <code>'
\* in every other case (SpecJournal)
C8_StatusMessage ==
    [][\A q \in inflight, j \in DOMAIN Responses :
          LET r == Responses[j]
          IN  (FetchResolve(q, r) /\ ~r.net /\ ~r.ok) =>
                 IF r.parses /\ "error" \in DOMAIN r.body
                   THEN lastAlert' = ProcessAlert(r.body["error"], 0)
                   ELSE lastAlert' = ProcessAlert("HTTP error! status: ", r.status)]_vars

\* C9: deleteAllData leaves the store unchanged unless both confirmations
\* are accepted; with both the key is removed and getJournalDays is empty
\* (SpecJournal)
C9_DeleteNeedsBothConfirms ==
    [][\A c1, c2 \in BOOLEAN :
          DeleteAllData(c1, c2) =>
             IF c1 /\ c2
               THEN /\ ~journalEntries'.present
                    /\ \A z \in Zones : GetJournalDays(journalEntries', z) = <<>>
               ELSE journalEntries' = journalEntries]_vars

\* C9 witness: a store that held an entry has been deleted
C9_Deleted ==
    /\ lastAlert = Alert("All journal data has been deleted", "", 0)
    /\ ~journalEntries.present
    /\ audioUrl >= 1
    /\ activeViews = {"landing"}

\* C10: exportAllData leaves the store unchanged; on an empty store it
\* creates no download; on N entries the downloaded envelope, parsed back,
\* has totalEntries = N and N entries, entry i equal to stored entry i on
\* the six exported fields and without audioBlobUrl (SpecJournal)
C10_ExportFaithful ==
    [][ExportAllData =>
         LET entries == ReadEntries(journalEntries)
             env == ParseObject(download'.text)
             out == ParseEntries(env["entries"])
         IN  /\ journalEntries' = journalEntries
             /\ Len(entries) = 0 => download' = download
             /\ Len(entries) > 0 =>
                   /\ download'.made
                   /\ env["totalEntries"] = Len(entries)
                   /\ Len(out) = Len(entries)
                   /\ \A i \in 1..Len(entries) :
                         /\ DOMAIN out[i] = {ExportKeys[j] : j \in DOMAIN ExportKeys}
                         /\ \A k \in DOMAIN out[i] : out[i][k] = entries[i][k]]_vars

\* C10 witness: an envelope of two entries with different transcripts has
\* been downloaded and the store still holds both
C10_ExportedTwo ==
    /\ download.made
    /\ Len(ReadEntries(journalEntries)) = 2
    /\ LET env == ParseObject(download.text)
       IN  /\ env["totalEntries"] = 2
           /\ ParseEntries(env["entries"])[1]["transcript"]
                 # ParseEntries(env["entries"])[2]["transcript"]
    /\ lastAlert = Alert("Successfully exported", "", 2)

\* successful and valid: a 2xx response whose body parses and carries the
\* four required fields, none of them empty
ValidResponse(r) ==
    /\ ~r.net /\ r.ok /\ r.parses
    /\ \A k \in RequiredFields :
          k \in DOMAIN r.body /\ (k \in StringFields => r.body[k] # "")
EntryKeySet == {EntryKeys[i] : i \in DOMAIN EntryKeys}
\* the stored value is absent, or the text of an array of whole entries
CompleteStore(ls) ==
    IF ls.present
      THEN /\ \A i \in DOMAIN ls.text : DOMAIN ParseObject(ls.text[i]) = EntryKeySet
           /\ StringifyEntries(ParseEntries(ls.text), EntryKeys) = ls.text
      ELSE ls.text = <<>>

\* C11: every step leaves the stored array as it is, or appends exactly one
\* entry at its end (only when a successful, valid response arrives), or
\* removes the whole key in deleteAllData; the stored value is always a
\* complete array of whole entries or absent (SpecJournal)
C11_StoreAppendOnly ==
    [][LET old == ReadEntries(journalEntries)
           new == ReadEntries(journalEntries')
       IN  /\ CompleteStore(journalEntries')
           /\ \/ journalEntries' = journalEntries
              \/ /\ journalEntries'.present
                 /\ Len(new) = Len(old) + 1
                 /\ SubSeq(new, 1, Len(old)) = old
                 /\ \E q \in inflight, j \in DOMAIN Responses :
                       FetchResolve(q, Responses[j]) /\ ValidResponse(Responses[j])
              \/ /\ ~journalEntries'.present
                 /\ DeleteAllData(TRUE, TRUE)]_vars

\* C11 witness: a second, different entry has been appended behind the first
C11_TwoAppended ==
    /\ Len(ReadEntries(journalEntries)) = 2
    /\ ReadEntries(journalEntries)[1]["transcript"] = "U"
    /\ ReadEntries(journalEntries)[2]["transcript"] # "U"
    /\ CompleteStore(journalEntries)

\* no session is recording or paused, no getUserMedia call, stop event or
\* processing request is pending
Idle ==
    /\ ~isRecording
    /\ gumPending = {}
    /\ stopEvents = {}
    /\ inflight = {}

\* C12: whenever the session is Idle, audioChunks is empty (SpecRecorder)
C12_ChunksEmptyWhenIdle == Idle => audioChunks = <<>>

\* C13: a start in which startWaveform throws ends as a start in which it
\* succeeds: recording, the recording view active, the timer interval
\* running, and no alert raised (SpecRecorder)
C13_WaveformFailureHarmless ==
    [][\A k \in Ids :
          SessionStarts(k, TRUE) =>
             /\ isRecording' /\ ~isPaused'
             /\ recorder'[k] = "recording"
             /\ timerInterval' \in intervals'
             /\ activeViews' = {"recording"}
             /\ lastAlert' = lastAlert]_vars

\* C14: with no session active no timer interval is live, and while one is
\* active at most one timer interval is live and at most one waveform loop
\* has a frame requested (SpecRepeating)
C14_RepeatingWorkTornDown ==
    /\ ~isRecording => intervals = {}
    /\ isRecording => Cardinality(intervals) <= 1 /\ Cardinality(rafLoops) <= 1

\* C15: no session is recording or paused while a processing request is
\* in flight (SpecRecorder)
C15_NoSessionWhileProcessing == ~(isRecording /\ Live # {} /\ inflight # {})

\* C16: the processing view, once active, is eventually replaced by the
\* insights view or the landing view; the arrival of a successful and valid
\* response appends exactly one entry and activates the insights view, the
\* arrival of any other response leaves the store unchanged and activates
\* the landing view (SpecProcessingFair)
C16_ProcessingEnds ==
    /\ ("processing" \in activeViews)
          ~> (activeViews = {"insights"} \/ activeViews = {"landing"})
    /\ [][\A q \in inflight, j \in DOMAIN Responses :
            FetchResolve(q, Responses[j]) =>
               IF ValidResponse(Responses[j])
                 THEN /\ Len(ReadEntries(journalEntries'))
                            = Len(ReadEntries(journalEntries)) + 1
                      /\ activeViews' = {"insights"}
                 ELSE /\ journalEntries' = journalEntries
                      /\ activeViews' = {"landing"}]_vars

\* C16 witness: an accepted stop has been processed, its entry is stored and
\* the insights view is active
C16_StopProcessed ==
    /\ StopsAccepted \cap processedFor # {}
    /\ inflight = {} /\ stopEvents = {}
    /\ Len(ReadEntries(journalEntries)) = 1
    /\ activeViews = {"insights"}

\* the topic processAudio would send in the current state
Topic == ResolveTopic(selected, customValue)

\* C17: after a starter-option click the topic is that option's text; after
\* typing text that is not blank it is the typed text, trimmed; with no
\* option selected and no non-blank text it is 'General reflection'; an
\* option is never selected while the text field is non-empty; and the
\* request processAudio sends carries the topic so chosen (SpecTopic)
C17_LastActionWins ==
    [][/\ \A p \in Presets : ClickStarter(p) => Topic' = PresetText(p)
       /\ \A j \in DOMAIN Typed :
             (InputCustom(Typed[j]) /\ Trim(Typed[j]) # <<>>) => Topic' = Trim(Typed[j])
       /\ (selected' = NoPreset /\ Trim(customValue') = <<>>) => Topic' = GeneralReflection
       /\ ~(selected' # NoPreset /\ customValue' # <<>>)
       /\ \A k \in Ids :
             (StopEvent(k) /\ ~isCancelled) =>
                /\ \E q \in inflight' \ inflight : q.topic = Topic
                /\ UNCHANGED topicVars]_vars

\* C17 witness: text typed after a starter option had been chosen has been
\* sent, trimmed, as the topic of a request
C17_TypedTopicSent ==
    /\ selected = NoPreset
    /\ customValue = <<" ", "t", "x", "t", " ">>
    /\ \E q \in inflight : q.topic = <<"t", "x", "t">>
    /\ \E q \in inflight : q.topic = PresetText("preset2")

\* C18: when getUserMedia of call k rejects, isRecording, every recorder and
\* stream, the timer interval, the waveform loops and the active view stay
\* as they were, call k has neither stream nor recorder, and the microphone
\* alert is shown (SpecStart)
C18_DeniedStaysIdle ==
    [][\A k \in Ids :
          GumDenied(k) =>
             /\ isRecording' = isRecording /\ isPaused' = isPaused
             /\ recorder' = recorder /\ recorder'[k] = "none"
             /\ stream' = stream /\ stream'[k] = "none"
             /\ mediaRecorder' = mediaRecorder
             /\ timerInterval' = timerInterval /\ intervals' = intervals
             /\ rafLoops' = rafLoops
             /\ activeViews' = activeViews
             /\ lastAlert' = MicAlert]_vars

\* C18 witness: the only start was refused; nothing runs, the landing view
\* is still active and the alert is shown
C18_Refused ==
    /\ nCalls = 1 /\ gumPending = {}
    /\ lastAlert = MicAlert
    /\ ~isRecording /\ mediaRecorder = 0
    /\ stream[1] = "none" /\ recorder[1] = "none"
    /\ intervals = {} /\ rafLoops = {}
    /\ activeViews = {"landing"}

\* C19: togglePause, stopRecording and cancelRecording invoked while
\* isRecording is false leave the recorders, the streams, the session flags,
\* the timer, the active view and the store unchanged; togglePause on an
\* active session flips isPaused, pauses or resumes the recorder and sets
\* the pause timestamps and the button icon, and changes nothing else: the
\* session stays active with its timer and its view (SpecClicks)
C19_NoOpsWithoutSession ==
    [][/\ ((PauseClick \/ StopClick \/ CancelClick) /\ ~isRecording) =>
             UNCHANGED <<recorder, stream, stopEvents, mediaRecorder, audioChunks,
                         isRecording, isPaused, isCancelled, timeVars,
                         activeViews, journalEntries, lastAlert>>
       /\ (PauseClick /\ isRecording) =>
             /\ isRecording'
             /\ isPaused' = ~isPaused
             /\ Live' = Live
             /\ recorder'[mediaRecorder] = IF isPaused THEN "recording" ELSE "paused"
             /\ UNCHANGED <<stream, stopEvents, mediaRecorder, audioChunks, isCancelled,
                            timerInterval, intervals, timerText, rafLoops, procVars,
                            topicVars, storeVars, activeViews, lastAlert>>]_vars

\* C19 witness: a session was paused after the clock had advanced and then
\* stopped; the three handlers are now invoked without a session
C19_PausedThenStopped ==
    /\ ~isRecording /\ NoSession
    /\ ended[1] = "stop"
    /\ isPaused /\ pausedTime = 1 /\ pauseIcon = "play"
    /\ activeViews = {"processing"}

\* milliseconds from the start of script.js recorder k to time t
ScriptAge(k, t) == (t - scriptStartedAt[k]) * ScriptUnitMs

\* C20: in script.js a recorder still recording is never older than 90
\* seconds, and a recorder stopped by the auto-stop callback was stopped no
\* sooner than 90 seconds after its own start (SpecScript)
C20_AutoStopAfter90s ==
    /\ \A k \in Ids :
          scriptRecorder[k] = "recording" => ScriptAge(k, scriptNow) <= AutoStopMs
    /\ \A k \in Ids :
          scriptStoppedBy[k] = "timeout" => ScriptAge(k, scriptStoppedAt[k]) >= AutoStopMs

\* the local calendar date, in zone z, at clock value t
LocalDate(t, z) == CivilFromDays(LocalDay(DateNow(t), z))

\* C21: a step in which saveJournalEntry stores an entry appends to the list
\* of getJournalDays the local date at which the entry was made, in every
\* time zone, and the list has one date for each stored entry (SpecCalendar)
C21_SavedDayListed ==
    [][(journalEntries'.present /\ journalEntries' # journalEntries) =>
          \A z \in Zones :
             /\ GetJournalDays(journalEntries', z)
                   = Append(GetJournalDays(journalEntries, z), LocalDate(now, z))
             /\ Len(GetJournalDays(journalEntries', z))
                   = Len(ReadEntries(journalEntries'))]_vars

\* C21 witness: one entry was saved before UTC midnight and one after it;
\* their days differ in UTC and agree west and east of it
C21_AcrossMidnight ==
    /\ GetJournalDays(journalEntries, 0)
          = <<[y |-> 2024, m |-> 2, d |-> 29], [y |-> 2024, m |-> 3, d |-> 1]>>
    /\ GetJournalDays(journalEntries, 300)
          = <<[y |-> 2024, m |-> 2, d |-> 29], [y |-> 2024, m |-> 2, d |-> 29]>>
    /\ GetJournalDays(journalEntries, -330)
          = <<[y |-> 2024, m |-> 3, d |-> 1], [y |-> 2024, m |-> 3, d |-> 1]>>

\* C22: in every reachable state exactly one view is active, and it is one
\* of the named views (SpecViews)
C22_ExactlyOneView ==
    /\ Cardinality(activeViews) = 1
    /\ activeViews \subseteq ViewNames

\* C22 witness: the settings view is active after a session went through
\* the recording, processing and insights views and stored its entry
C22_SettingsAfterInsights ==
    /\ activeViews = {"settings"}
    /\ StopsAccepted # {}
    /\ Len(ReadEntries(journalEntries)) = 1
    /\ inflight = {}

\* the days highlighted in the rendered calendar c
Highlighted(c) == c.days
\* the days of the month shown by c on which the store has an entry, in zone z
JournalDaysShown(c, z) ==
    LET days == GetJournalDays(journalEntries, z)
    IN  {days[j].d : j \in {n \in DOMAIN days :
                               days[n].y = c.year /\ days[n].m = c.month}}

\* C23: in every state, and so after every append and every confirmed
\* deleteAllData, the highlighted days of the calendar are the days of the
\* displayed month that getJournalDays lists, in every time zone; none is
\* highlighted when the store is empty (SpecCalendar)
C23_CalendarAgreesWithStore ==
    \A z \in Zones :
       /\ Highlighted(calendar[z]) = JournalDaysShown(calendar[z], z)
       /\ ~journalEntries.present => Highlighted(calendar[z]) = {}

\* C23 witness: after entries on 29 February and on 1 March (UTC) the
\* calendar shows March with day 1 alone highlighted
C23_MarchAfterFebruary ==
    /\ Len(ReadEntries(journalEntries)) = 2
    /\ GetJournalDays(journalEntries, 0)[1] = [y |-> 2024, m |-> 2, d |-> 29]
    /\ calendar[0].year = 2024 /\ calendar[0].month = 3
    /\ calendar[0].lastDay = 31 /\ calendar[0].blanks = 5
    /\ Highlighted(calendar[0]) = {1}
    /\ Highlighted(calendar[300]) = {29} /\ calendar[300].lastDay = 29

\* C24: the blob of every processing request holds the chunk of one
\* session only, the one whose stop event sent the request (SpecRecorder)
C24_BlobOfOneSession ==
    \A q \in inflight : \A i \in DOMAIN q.blob : q.blob[i] = q.blob[Len(q.blob)]

\* C25: isPaused is true only while a session is active; while a session
\* records the pause button shows the pause icon, and while it is paused
\* the play icon (SpecClicks)
C25_PauseFlagAndIcon ==
    /\ isPaused => isRecording
    /\ (isRecording /\ ~isPaused) => pauseIcon = "pause"
    /\ (isRecording /\ isPaused) => pauseIcon = "play"

====
